---- MODULE Spec2Model ----
(***************************************************************************)
(* Model of the repository / commit aggregation pipeline of the portfolio  *)
(* page (src/src/App.tsx): the mount effect fetchRepositories, its         *)
(* per-repository commit fetches joined by Promise.all, the React state it *)
(* writes (repositories, error, loading), and the view state (language     *)
(* filter, theme, mobile menu, scroll) with the view rendered from both.   *)
(*                                                                         *)
(* JavaScript runs each continuation to completion, so one action is one   *)
(* continuation: the code between two awaits, together with the microtask  *)
(* chain it triggers (a callback's last step resolves Promise.all, whose   *)
(* continuation writes the state before any other event is handled).       *)
(***************************************************************************)
EXTENDS Integers, Sequences, FiniteSets, TLC

VARIABLES
    token,          \* import.meta.env.VITE_GITHUB_TOKEN, None when undefined
    pc,             \* position of fetchRepositories
    listResponse,   \* what the list request settled with
    data,           \* the parsed repository list
    slots,          \* one entry per repository: the callback of data.map
    settleOrder,    \* indices of slots in the order their promises settled
    requests,       \* every request handed to fetch(), in issue order
    repositories,   \* useState<Repository[]>([])
    loading,        \* useState(true)
    error,          \* useState<string | null>(null)
    setCalls,       \* the state setters called so far, in call order
    selectedLanguage,   \* useState<string>('All'), never set
    projectFilter,      \* useState<string>('All')
    isScrolled,         \* useState(false)
    isMobileMenuOpen,   \* useState(false)
    isDarkMode,         \* useState(() => saved theme or system preference)
    storedTheme         \* localStorage item 'theme', None when absent

\* the state of the fetch cycle, and the state of the view
fetchVars == <<token, pc, listResponse, data, slots, settleOrder, requests,
               repositories, loading, error, setCalls>>
viewVars == <<selectedLanguage, projectFilter, isScrolled, isMobileMenuOpen,
              isDarkMode, storedTheme>>

vars == <<token, pc, listResponse, data, slots, settleOrder, requests,
          repositories, loading, error, setCalls,
          selectedLanguage, projectFilter, isScrolled, isMobileMenuOpen,
          isDarkMode, storedTheme>>

----------------------------------------------------------------------------
(* Bounds of the model *)

\* longest repository list the upstream returns
MaxRepos == 2

\* clock ticks per calendar day (the clock is coarser than the real one)
TicksPerDay == 2

----------------------------------------------------------------------------
(* JavaScript values *)

\* null / undefined, and a present value
None == <<>>
Some(v) == <<v>>

Min(a, b) == IF a < b THEN a ELSE b

\* the first n elements of s
Take(s, n) == SubSeq(s, 1, Min(n, Len(s)))

\* String.prototype.substring(from, to) on a string held as a sequence of characters
Substring(s, from, to) == SubSeq(s, from + 1, Min(to, Len(s)))

\* new Date(d).toLocaleDateString(): the calendar day of the instant, or the
\* text "Invalid Date" when the argument is undefined
ToLocaleDateString(d) ==
    IF d = None THEN [valid |-> FALSE, day |-> 0]
                ELSE [valid |-> TRUE, day |-> d[1] \div TicksPerDay]

----------------------------------------------------------------------------
(* Texts of the source *)

ConfigErrorMessage ==
    "GitHub token not found. Please add VITE_GITHUB_TOKEN to your environment variables."
RateLimitMessage == "GitHub API rate limit exceeded. Please try again later."
FetchErrorMessage == "Failed to fetch repositories"
PlaceholderAvatar ==
    "https://github.githubassets.com/images/modules/logos_page/GitHub-Mark.png"
ListUrl == "https://api.github.com/users/Uvindu2002/repos"
CommitsUrlPrefix == "https://api.github.com/repos/Uvindu2002/"

\* the page size asked of the commits endpoint (?per_page=3)
PerPage == 3

\* the length of the displayed commit identifier, sha.substring(0, 7)
ShaPrefixLen == 7

----------------------------------------------------------------------------
(* The upstream: the values the code-hosting API can answer with *)

Hex == <<"0", "1", "2", "3", "4", "5", "6", "7", "8", "9", "a", "b", "c", "d", "e", "f">>

\* a full 40-character commit hash, as a sequence of characters
FullSha(seed) == [i \in 1..40 |-> Hex[((i * seed) % 16) + 1]]

\* a commit object of the commits endpoint:
\* {sha, commit: {message, author: {name, date}}, author: {avatar_url}}
UpstreamCommit(seed, message, date, user) ==
    [sha    |-> Some(FullSha(seed)),
     commit |-> Some([message |-> message,
                      author  |-> Some([name |-> "Uvindu Pramuditha", date |-> Some(date)])]),
     author |-> user]

WithAvatar == Some([avatar_url |-> Some("https://avatars.githubusercontent.com/u/1")])

commitNewest == UpstreamCommit(1, "Add project gallery", 9, WithAvatar)
commitMiddle == UpstreamCommit(3, "Fix header on scroll", 6, None)
commitOlder  == UpstreamCommit(5, "Add dark mode", 4, Some([avatar_url |-> None]))
commitOldest == UpstreamCommit(7, "Initial commit", 1, WithAvatar)

\* commit objects that lack a field the mapping reads
commitNoSha      == [commitNewest EXCEPT !.sha = None]
commitNoAuthor   == [commitMiddle EXCEPT !.commit = Some([message |-> "Merge", author |-> None])]

\* a commit object whose author entry is there but carries no date
commitNoDate ==
    [commitOldest EXCEPT !.commit = Some([message |-> "Import history",
                                          author  |-> Some([name |-> "Uvindu Pramuditha",
                                                            date |-> None])])]

\* the commit listings of a repository, in the order the endpoint lists them:
\* by position in the history, which is not always the order of the author dates
\* (a rebased or cherry-picked commit keeps its earlier author date)
Histories ==
    { <<>>,
      <<commitNewest>>,
      <<commitNewest, commitMiddle, commitOlder, commitOldest>>,
      <<commitOlder, commitNewest>>,
      <<commitNewest, commitNoSha>>,
      <<commitNoAuthor>>,
      <<commitNoDate, commitNewest>> }

\* the page of a listing that the commits endpoint returns for ?per_page=n
UpstreamCommitsPage(history, per_page) == Take(history, per_page)

\* repository objects of the list endpoint:
\* {name, description, html_url, language, stargazers_count, forks_count, topics}
UpstreamRepos ==
    { [name |-> "portfolio", description |-> Some("Personal site"),
       html_url |-> "https://github.com/Uvindu2002/portfolio",
       language |-> Some("TypeScript"), stargazers_count |-> 2, forks_count |-> 1,
       topics |-> Some(<<"react">>)],
      [name |-> "ml-notes", description |-> None,
       html_url |-> "https://github.com/Uvindu2002/ml-notes",
       language |-> Some("Python"), stargazers_count |-> 0, forks_count |-> 0,
       topics |-> None],
      [name |-> "dotfiles", description |-> Some("Shell setup"),
       html_url |-> "https://github.com/Uvindu2002/dotfiles",
       language |-> None, stargazers_count |-> 1, forks_count |-> 0,
       topics |-> Some(<<>>)] }

\* the order in which the list endpoint lists the repositories: by name
NameOrder == <<"dotfiles", "ml-notes", "portfolio">>
NameRank(name) == CHOOSE k \in 1..Len(NameOrder) : NameOrder[k] = name

\* the repository lists the list endpoint returns: names are unique within the
\* account, and the list is sorted by name
UpstreamLists ==
    { l \in UNION {[1..n -> UpstreamRepos] : n \in 0..MaxRepos} :
        /\ \A i, j \in 1..Len(l) : i # j => l[i].name # l[j].name
        /\ \A i, j \in 1..Len(l) : i < j => NameRank(l[i].name) < NameRank(l[j].name) }

\* HTTP statuses the endpoints answer with
ListStatuses == {200, 403, 404, 500}
CommitStatuses == {200, 403, 409, 500}

\* a success test that only treats server errors as failures
OkBelow500(status) == status < 500

\* Response.ok
Ok(status) == status \in 200..299

\* an Error object
Error(message) == [isError |-> TRUE, message |-> message]
NoError == [isError |-> FALSE, message |-> ""]

\* what fetch() rejects with when the request itself fails (a TypeError whose
\* text the browser chooses), and what response.json() rejects with
FetchRejections ==
    { Error("Failed to fetch"),
      Error("NetworkError when attempting to fetch resource."),
      Error("Load failed") }
JsonRejections == { Error("Unexpected token < in JSON at position 0") }

\* readings of the clock, new Date()
ClockTicks == {19, 20}

\* the environment's credential: undefined, empty, or a token
Tokens == {None, Some(""), Some("ghp_token")}

----------------------------------------------------------------------------
(* The code: pure parts of fetchRepositories *)

\* a check that only catches an undefined credential (token === undefined)
TokenMissingUndefinedOnly(t) == t = None

\* if (!token): undefined and the empty string are both falsy
TokenMissing(t) == t = None \/ t = Some("")

\* headers that send the credential under the Bearer scheme
HeadersBearer(t) ==
    [Authorization |-> [scheme |-> "Bearer", credential |-> t[1]],
     Accept        |-> "application/vnd.github.v3+json",
     UserAgent     |-> "Portfolio-App"]

\* the headers object of both requests
Headers(t) ==
    [Authorization |-> [scheme |-> "token", credential |-> t[1]],
     Accept        |-> "application/vnd.github.v3+json",
     UserAgent     |-> "Portfolio-App"]

\* the list request
ListRequest(t) == [url |-> ListUrl, repo |-> "", per_page |-> 0, headers |-> Headers(t)]

\* a commits request without ?per_page=3: the endpoint's default page of 30
CommitsRequestDefaultPage(repo, t) ==
    [url |-> CommitsUrlPrefix, repo |-> repo.name, per_page |-> 30, headers |-> Headers(t)]

\* the commits request of one repository
CommitsRequest(repo, t) ==
    [url |-> CommitsUrlPrefix, repo |-> repo.name, per_page |-> PerPage, headers |-> Headers(t)]

\* a status check without the 403 case
ListStatusErrorGeneric(status) == Error(FetchErrorMessage)

\* the Error thrown for a list response that is not ok
ListStatusError(status) ==
    IF status = 403 THEN Error(RateLimitMessage) ELSE Error(FetchErrorMessage)

\* reading a field of undefined or null raises a TypeError: commit.sha.substring,
\* commit.commit.message, commit.commit.author.date
MapCommitThrows(commit) ==
    \/ commit.sha = None
    \/ commit.commit = None
    \/ commit.commit[1].author = None

\* an avatar without the default: commit.author?.avatar_url, undefined shown as ""
AvatarUrlNoDefault(commit) ==
    IF commit.author = None THEN ""
    ELSE IF commit.author[1].avatar_url = None THEN ""
    ELSE commit.author[1].avatar_url[1]

\* commit.author?.avatar_url || placeholder
AvatarUrl(commit) ==
    IF commit.author = None THEN PlaceholderAvatar
    ELSE IF commit.author[1].avatar_url \in {None, Some("")} THEN PlaceholderAvatar
    ELSE commit.author[1].avatar_url[1]

\* the arrow function of commitsData.map
MapCommit(commit) ==
    [sha     |-> Substring(commit.sha[1], 0, ShaPrefixLen),
     message |-> commit.commit[1].message,
     date    |-> ToLocaleDateString(commit.commit[1].author[1].date),
     author  |-> [name       |-> commit.commit[1].author[1].name,
                  avatar_url |-> AvatarUrl(commit)]]

\* a mapping that leaves out the elements it cannot read and keeps the others
MapCommitsSkipBad(commitsData) ==
    LET readable == SelectSeq(commitsData, LAMBDA commit : ~MapCommitThrows(commit))
    IN [threw |-> FALSE, value |-> [k \in 1..Len(readable) |-> MapCommit(readable[k])]]

\* commitsData.map(...): the mapped array, or the exception of the first bad element
MapCommits(commitsData) ==
    IF \E k \in 1..Len(commitsData) : MapCommitThrows(commitsData[k])
    THEN [threw |-> TRUE, value |-> <<>>]
    ELSE [threw |-> FALSE, value |-> [k \in 1..Len(commitsData) |-> MapCommit(commitsData[k])]]

\* an object literal that takes the name from the owner of the repository
RepositoryNamedByOwner(repo, commits) ==
    [name             |-> "Uvindu2002",
     description      |-> repo.description,
     html_url         |-> repo.html_url,
     language         |-> repo.language,
     stargazers_count |-> repo.stargazers_count,
     forks_count      |-> repo.forks_count,
     topics           |-> IF repo.topics = None THEN <<>> ELSE repo.topics[1],
     commits          |-> commits]

\* the object literal both branches of the callback return: topics: repo.topics || []
Repository(repo, commits) ==
    [name             |-> repo.name,
     description      |-> repo.description,
     html_url         |-> repo.html_url,
     language         |-> repo.language,
     stargazers_count |-> repo.stargazers_count,
     forks_count      |-> repo.forks_count,
     topics           |-> IF repo.topics = None THEN <<>> ELSE repo.topics[1],
     commits          |-> commits]

\* promises
NoRepository ==
    [name |-> "", description |-> None, html_url |-> "", language |-> None,
     stargazers_count |-> 0, forks_count |-> 0, topics |-> <<>>, commits |-> <<>>]
Pending == [state |-> "pending", value |-> NoRepository, reason |-> NoError]
Fulfilled(v) == [state |-> "fulfilled", value |-> v, reason |-> NoError]
Rejected(e) == [state |-> "rejected", value |-> NoRepository, reason |-> e]

\* what a request settled with
NoOutcome == [kind |-> "none", status |-> 0, body |-> <<>>, reason |-> NoError]
FetchRejected(e) == [NoOutcome EXCEPT !.kind = "fetchRejected", !.reason = e]
NotOk(status) == [NoOutcome EXCEPT !.kind = "notOk", !.status = status]
JsonRejected(status, e) ==
    [NoOutcome EXCEPT !.kind = "jsonRejected", !.status = status, !.reason = e]
Json(status, body) == [NoOutcome EXCEPT !.kind = "json", !.status = status, !.body = body]

\* a callback with no try/catch around its fetch: a failure rejects its promise
CommitCallbackUncaught(repo, outcome) ==
    CASE outcome.kind = "fetchRejected" -> Rejected(outcome.reason)
      [] outcome.kind = "notOk"         -> Fulfilled(Repository(repo, <<>>))
      [] outcome.kind = "jsonRejected"  -> Rejected(outcome.reason)
      [] OTHER ->
            IF MapCommits(outcome.body).threw
            THEN Rejected(Error("Cannot read properties of undefined"))
            ELSE Fulfilled(Repository(repo, MapCommits(outcome.body).value))

\* a callback that, uncaught, also throws on a response that is not ok
CommitCallbackStrict(repo, outcome) ==
    IF outcome.kind = "notOk"
    THEN Rejected(Error("Failed to fetch commits"))
    ELSE CommitCallbackUncaught(repo, outcome)

\* a callback whose promise is never settled when its fetch fails
CommitCallbackHangs(repo, outcome) ==
    IF outcome.kind = "json" /\ ~MapCommits(outcome.body).threw
    THEN Fulfilled(Repository(repo, MapCommits(outcome.body).value))
    ELSE Pending

\* the async callback of data.map, from the settlement of its request on:
\* resolved with the repository and its commits, or, from the catch block,
\* with the repository and no commits
CommitCallback(repo, outcome) ==
    CASE outcome.kind = "fetchRejected" -> Fulfilled(Repository(repo, <<>>))
      [] outcome.kind = "notOk"         -> Fulfilled(Repository(repo, <<>>))
      [] outcome.kind = "jsonRejected"  -> Fulfilled(Repository(repo, <<>>))
      [] OTHER ->
            IF MapCommits(outcome.body).threw
            THEN Fulfilled(Repository(repo, <<>>))
            ELSE Fulfilled(Repository(repo, MapCommits(outcome.body).value))

\* the indices i >= from of s, in order, whose promise is in the given state
RECURSIVE IndicesWhere(_, _, _)
IndicesWhere(s, state, from) ==
    IF from > Len(s) THEN <<>>
    ELSE IF s[from].state = state THEN <<from>> \o IndicesWhere(s, state, from + 1)
    ELSE IndicesWhere(s, state, from + 1)

\* a join that delivers the results in the order the promises settled
PromiseAllBySettlement(promises, order) ==
    IF \E i \in 1..Len(promises) : promises[i].state = "rejected"
    THEN [state |-> "rejected", value |-> <<>>,
          reason |-> promises[order[CHOOSE i \in 1..Len(order) :
                                 /\ promises[order[i]].state = "rejected"
                                 /\ \A j \in 1..(i - 1) : promises[order[j]].state # "rejected"]].reason]
    ELSE IF \A i \in 1..Len(promises) : promises[i].state = "fulfilled"
    THEN [state |-> "fulfilled", value |-> [k \in 1..Len(order) |-> promises[order[k]].value],
          reason |-> NoError]
    ELSE [state |-> "pending", value |-> <<>>, reason |-> NoError]

\* a race in place of the join: fulfilled as soon as one promise is
PromiseAllAny(promises, order) ==
    IF \E i \in 1..Len(promises) : promises[i].state = "fulfilled"
    THEN [state |-> "fulfilled",
          value |-> [k \in 1..Len(IndicesWhere(promises, "fulfilled", 1)) |->
                        promises[IndicesWhere(promises, "fulfilled", 1)[k]].value],
          reason |-> NoError]
    ELSE [state |-> "pending", value |-> <<>>, reason |-> NoError]

\* Promise.all(promises): rejected with the reason of the first promise to reject,
\* fulfilled with the values in the order of the array once all are fulfilled
PromiseAll(promises, order) ==
    IF \E i \in 1..Len(promises) : promises[i].state = "rejected"
    THEN [state |-> "rejected", value |-> <<>>,
          reason |-> promises[order[CHOOSE i \in 1..Len(order) :
                                 /\ promises[order[i]].state = "rejected"
                                 /\ \A j \in 1..(i - 1) : promises[order[j]].state # "rejected"]].reason]
    ELSE IF \A i \in 1..Len(promises) : promises[i].state = "fulfilled"
    THEN [state |-> "fulfilled", value |-> [i \in 1..Len(promises) |-> promises[i].value],
          reason |-> NoError]
    ELSE [state |-> "pending", value |-> <<>>, reason |-> NoError]

\* a short hash written in the source, as a sequence of characters
abc1234 == <<"a", "b", "c", "1", "2", "3", "4">>
def5678 == <<"d", "e", "f", "5", "6", "7", "8">>

\* default repositories of which only the first carries a commit
DefaultRepositoriesOneCommit(now) ==
    << [name             |-> "Portfolio Website",
        description      |-> Some("My personal portfolio website built with React and TypeScript"),
        html_url         |-> "https://github.com/Uvindu2002/portfolio",
        language         |-> Some("TypeScript"),
        stargazers_count |-> 0,
        forks_count      |-> 0,
        topics           |-> <<"react", "typescript", "tailwindcss">>,
        commits          |-> << [sha     |-> abc1234,
                                 message |-> "Initial commit",
                                 date    |-> ToLocaleDateString(Some(now)),
                                 author  |-> [name       |-> "Uvindu Pramuditha",
                                              avatar_url |-> PlaceholderAvatar]] >>],
       [name             |-> "Data Science Projects",
        description      |-> Some("Collection of data science and machine learning projects"),
        html_url         |-> "https://github.com/Uvindu2002/data-science-projects",
        language         |-> Some("Python"),
        stargazers_count |-> 0,
        forks_count      |-> 0,
        topics           |-> <<"python", "machine-learning", "data-science">>,
        commits          |-> <<>>] >>

\* the default repositories of the catch block
DefaultRepositories(now) ==
    << [name             |-> "Portfolio Website",
        description      |-> Some("My personal portfolio website built with React and TypeScript"),
        html_url         |-> "https://github.com/Uvindu2002/portfolio",
        language         |-> Some("TypeScript"),
        stargazers_count |-> 0,
        forks_count      |-> 0,
        topics           |-> <<"react", "typescript", "tailwindcss">>,
        commits          |-> << [sha     |-> abc1234,
                                 message |-> "Initial commit",
                                 date    |-> ToLocaleDateString(Some(now)),
                                 author  |-> [name       |-> "Uvindu Pramuditha",
                                              avatar_url |-> PlaceholderAvatar]] >>],
       [name             |-> "Data Science Projects",
        description      |-> Some("Collection of data science and machine learning projects"),
        html_url         |-> "https://github.com/Uvindu2002/data-science-projects",
        language         |-> Some("Python"),
        stargazers_count |-> 0,
        forks_count      |-> 0,
        topics           |-> <<"python", "machine-learning", "data-science">>,
        commits          |-> << [sha     |-> def5678,
                                 message |-> "Add initial project structure",
                                 date    |-> ToLocaleDateString(Some(now)),
                                 author  |-> [name       |-> "Uvindu Pramuditha",
                                              avatar_url |-> PlaceholderAvatar]] >>] >>

\* a catch block that shows one text whatever was thrown
CatchMessageGeneric(e) == FetchErrorMessage

\* error instanceof Error ? error.message : 'Failed to fetch repositories'
CatchMessage(e) == IF e.isError THEN e.message ELSE FetchErrorMessage

\* how the try block ended
Returned(reposWithCommits) == [threw |-> FALSE, value |-> reposWithCommits, reason |-> NoError]
Threw(e) == [threw |-> TRUE, value |-> <<>>, reason |-> e]

\* a tail whose default repositories are set in the finally block
AfterTryDefaultsInFinally(result, now, calls) ==
    IF result.threw
    THEN [repositories |-> DefaultRepositories(now),
          error        |-> Some(CatchMessage(result.reason)),
          loading      |-> FALSE,
          calls        |-> calls \o <<"setError", "setRepositories", "setLoading">>]
    ELSE [repositories |-> DefaultRepositories(now),
          error        |-> None,
          loading      |-> FALSE,
          calls        |-> calls \o <<"setRepositories", "setError", "setRepositories", "setLoading">>]

\* a tail whose catch block sets the error and no default repositories
AfterTryNoDefaults(result, now, calls) ==
    IF result.threw
    THEN [repositories |-> <<>>,
          error        |-> Some(CatchMessage(result.reason)),
          loading      |-> FALSE,
          calls        |-> calls \o <<"setError", "setLoading">>]
    ELSE [repositories |-> result.value,
          error        |-> None,
          loading      |-> FALSE,
          calls        |-> calls \o <<"setRepositories", "setError", "setLoading">>]

\* a tail without the finally block: loading is cleared at the end of the try block only
AfterTryNoFinally(result, now, calls) ==
    IF result.threw
    THEN [repositories |-> DefaultRepositories(now),
          error        |-> Some(CatchMessage(result.reason)),
          loading      |-> TRUE,
          calls        |-> calls \o <<"setError", "setRepositories">>]
    ELSE [repositories |-> result.value,
          error        |-> None,
          loading      |-> FALSE,
          calls        |-> calls \o <<"setRepositories", "setError", "setLoading">>]

\* a tail that clears the loading flag before it writes the outcome
AfterTryLoadingFirst(result, now, calls) ==
    IF result.threw
    THEN [repositories |-> DefaultRepositories(now),
          error        |-> Some(CatchMessage(result.reason)),
          loading      |-> FALSE,
          calls        |-> calls \o <<"setLoading", "setError", "setRepositories">>]
    ELSE [repositories |-> result.value,
          error        |-> None,
          loading      |-> FALSE,
          calls        |-> calls \o <<"setLoading", "setRepositories", "setError">>]

\* the tail of fetchRepositories: the last two statements of the try block, or
\* the catch block, and then the finally block
AfterTry(result, now, calls) ==
    IF result.threw
    THEN [repositories |-> DefaultRepositories(now),
          error        |-> Some(CatchMessage(result.reason)),
          loading      |-> FALSE,
          calls        |-> calls \o <<"setError", "setRepositories", "setLoading">>]
    ELSE [repositories |-> result.value,
          error        |-> None,
          loading      |-> FALSE,
          calls        |-> calls \o <<"setRepositories", "setError", "setLoading">>]

----------------------------------------------------------------------------
(* The code: the view state and the rendering *)

\* the values the storage can hold for 'theme' when the page loads
StoredThemes == {None, Some("dark"), Some("light")}

\* window.scrollY at a scroll event, and the threshold of handleScroll
ScrollPositions == {0, 50, 51}
ScrollThreshold == 50

\* isDarkMode ? 'dark' : 'light'
ThemeName(dark) == IF dark THEN "dark" ELSE "light"

\* the initialiser of isDarkMode: the saved theme if there is one, else the
\* system preference
InitialDarkMode(savedTheme, matches) ==
    IF savedTheme \notin {None, Some("")} THEN savedTheme = Some("dark") ELSE matches

\* a fetch effect that depends on the filter, and a theme effect that depends on nothing
FetchEffectDepsFilter(filter, dark) == <<filter>>
ThemeEffectDepsNone(filter, dark) == <<>>

\* a fetch effect that depends on the theme
FetchEffectDepsTheme(filter, dark) == <<dark>>

\* the dependency arrays of the two effects that can run again
FetchEffectDeps(filter, dark) == <<>>
ThemeEffectDeps(filter, dark) == <<dark>>

\* Array.prototype.map(repo => repo.language)
LanguagesOf(repos) == [i \in 1..Len(repos) |-> repos[i].language]

\* Array.prototype.filter(Boolean) on languages: null, undefined and '' are dropped
Truthy(languages) ==
    SelectSeq(languages, LAMBDA language : language \notin {None, Some("")})

\* a spread without the Set: every value is kept
SetOfKeepsAll(values) == values

\* [...new Set(values)]: the values in the order of their first occurrence
RECURSIVE SetOf(_)
SetOf(values) ==
    IF values = <<>> THEN <<>>
    ELSE LET rest == SetOf(SubSeq(values, 1, Len(values) - 1))
             last == values[Len(values)]
         IN IF \E k \in 1..Len(rest) : rest[k] = last THEN rest ELSE Append(rest, last)

\* the filter buttons taken from the keys of languageColors, not from the collection
LanguagesFromColors(repos) ==
    <<"All", "JavaScript", "TypeScript", "Python", "Java", "PHP", "HTML", "CSS">>

\* ['All', ...new Set(repositories.map(repo => repo.language).filter(Boolean))]
Languages(repos) ==
    <<"All">> \o [k \in 1..Len(SetOf(Truthy(LanguagesOf(repos)))) |->
                    SetOf(Truthy(LanguagesOf(repos)))[k][1]]

\* repo.language === language
LanguageIs(repo, language) == repo.language = Some(language)

\* selectedLanguage === 'All' ? repositories : repositories.filter(...)
filteredRepositories(repos, selected) ==
    IF selected = "All" THEN repos
    ELSE SelectSeq(repos, LAMBDA repo : LanguageIs(repo, selected))

\* a filter that lets a repository without a language through
GalleryFilterLoose(repos, filter) ==
    SelectSeq(repos, LAMBDA repo :
        filter = "All" \/ repo.language = None \/ LanguageIs(repo, filter))

\* repositories.filter(repo => projectFilter === 'All' || repo.language === projectFilter)
GalleryFilter(repos, filter) ==
    SelectSeq(repos, LAMBDA repo : filter = "All" \/ LanguageIs(repo, filter))

\* the branch of the projects section that is rendered
ProjectsView(isLoading, err, repos) ==
    IF isLoading THEN "loading"
    ELSE IF err \notin {None, Some("")} THEN "error"
    ELSE IF Len(repos) = 0 THEN "empty"
    ELSE "gallery"

\* the cards of the projects section: only the gallery branch renders any
Cards(isLoading, err, repos, filter) ==
    IF ProjectsView(isLoading, err, repos) = "gallery" THEN GalleryFilter(repos, filter)
    ELSE <<>>

----------------------------------------------------------------------------
(* The state machine *)

\* the promises of the callbacks, in the order of the array handed to Promise.all
Promises(s) == [i \in 1..Len(s) |-> s[i].promise]

\* a callback at its first await
NewSlot(repo) == [repo |-> repo, phase |-> "fetching", outcome |-> NoOutcome, promise |-> Pending]

Init ==
    /\ token \in Tokens
    /\ pc = "init"
    /\ listResponse = NoOutcome
    /\ data = <<>>
    /\ slots = <<>>
    /\ settleOrder = <<>>
    /\ requests = <<>>
    /\ repositories = <<>>
    /\ loading = TRUE
    /\ error = None
    /\ setCalls = <<>>
    /\ selectedLanguage = "All"
    /\ projectFilter = "All"
    /\ isScrolled = FALSE
    /\ isMobileMenuOpen = FALSE
    /\ storedTheme \in StoredThemes
    /\ \E matches \in BOOLEAN : isDarkMode = InitialDarkMode(storedTheme, matches)

\* fetchRepositories runs its tail and returns
Finish(result) ==
    /\ pc' = "done"
    /\ \E now \in (IF result.threw THEN ClockTicks ELSE {0}) :
          LET after == AfterTry(result, now, setCalls) IN
          /\ repositories' = after.repositories
          /\ error' = after.error
          /\ loading' = after.loading
          /\ setCalls' = after.calls

\* a call of fetchRepositories, which runs up to its first await
fetchRepositories ==
    /\ IF TokenMissing(token)
       THEN /\ Finish(Threw(Error(ConfigErrorMessage)))
            /\ UNCHANGED requests
       ELSE /\ requests' = Append(requests, ListRequest(token))
            /\ pc' = "awaitList"
            /\ UNCHANGED <<repositories, loading, error, setCalls>>
    /\ UNCHANGED <<token, listResponse, data, slots, settleOrder>>

\* a first render whose theme effect does not write to the storage
MountNoThemeEffect ==
    /\ pc = "init"
    /\ fetchRepositories
    /\ UNCHANGED <<selectedLanguage, projectFilter, isScrolled, isMobileMenuOpen,
                   isDarkMode, storedTheme>>

\* the effects of the first render, in the order of the source: the fetch cycle
\* starts, the listeners are registered, the theme is written to the storage
Mount ==
    /\ pc = "init"
    /\ fetchRepositories
    /\ storedTheme' = Some(ThemeName(isDarkMode))
    /\ UNCHANGED <<selectedLanguage, projectFilter, isScrolled, isMobileMenuOpen, isDarkMode>>

\* the list request fails: await fetch(...) throws
ListFetchRejects ==
    /\ pc = "awaitList"
    /\ \E e \in FetchRejections :
          /\ listResponse' = FetchRejected(e)
          /\ Finish(Threw(e))
    /\ UNCHANGED <<token, data, slots, settleOrder, requests>>
    /\ UNCHANGED viewVars

\* the list request is answered: a response that is not ok throws
ListResponds ==
    /\ pc = "awaitList"
    /\ \E status \in ListStatuses :
          IF Ok(status)
          THEN /\ listResponse' = [NoOutcome EXCEPT !.kind = "response", !.status = status]
               /\ pc' = "awaitListJson"
               /\ UNCHANGED <<repositories, loading, error, setCalls>>
          ELSE /\ listResponse' = NotOk(status)
               /\ Finish(Threw(ListStatusError(status)))
    /\ UNCHANGED <<token, data, slots, settleOrder, requests>>
    /\ UNCHANGED viewVars

\* the body of the list response does not parse: await response.json() throws
ListJsonRejects ==
    /\ pc = "awaitListJson"
    /\ \E e \in JsonRejections :
          /\ listResponse' = JsonRejected(listResponse.status, e)
          /\ Finish(Threw(e))
    /\ UNCHANGED <<token, data, slots, settleOrder, requests>>
    /\ UNCHANGED viewVars

\* the list parses: data.map starts one callback per repository, each sending
\* its request; Promise.all of no promises is fulfilled at once
ListJsonResolves ==
    /\ pc = "awaitListJson"
    /\ \E list \in UpstreamLists :
          LET newSlots == [i \in 1..Len(list) |-> NewSlot(list[i])]
              all == PromiseAll(Promises(newSlots), <<>>)
          IN
          /\ listResponse' = Json(listResponse.status, <<>>)
          /\ data' = list
          /\ slots' = newSlots
          /\ requests' = requests \o [i \in 1..Len(list) |-> CommitsRequest(list[i], token)]
          /\ IF all.state = "fulfilled"
             THEN Finish(Returned(all.value))
             ELSE /\ pc' = "awaitAll"
                  /\ UNCHANGED <<repositories, loading, error, setCalls>>
    /\ UNCHANGED <<token, settleOrder>>
    /\ UNCHANGED viewVars

\* the callback of slot i runs to its end; when that settles Promise.all,
\* fetchRepositories resumes
SlotSettles(i, outcome) ==
    LET promise == CommitCallback(slots[i].repo, outcome)
        newSlots == [slots EXCEPT ![i] = [repo |-> @.repo, phase |-> "settled",
                                          outcome |-> outcome, promise |-> promise]]
        newOrder == Append(settleOrder, i)
        all == PromiseAll(Promises(newSlots), newOrder)
    IN
    /\ slots' = newSlots
    /\ settleOrder' = newOrder
    /\ IF pc = "awaitAll" /\ all.state # "pending"
       THEN Finish(IF all.state = "fulfilled" THEN Returned(all.value) ELSE Threw(all.reason))
       ELSE UNCHANGED <<pc, repositories, loading, error, setCalls>>
    /\ UNCHANGED <<token, listResponse, data, requests>>
    /\ UNCHANGED viewVars

\* a commits request fails and is sent again
CommitFetchRejectsRetry ==
    \E i \in 1..Len(slots) :
        /\ slots[i].phase = "fetching"
        /\ requests' = Append(requests, CommitsRequest(slots[i].repo, token))
        /\ UNCHANGED <<token, pc, listResponse, data, slots, settleOrder,
                       repositories, loading, error, setCalls>>
        /\ UNCHANGED viewVars

\* a commits request fails
CommitFetchRejects ==
    \E i \in 1..Len(slots) :
        /\ slots[i].phase = "fetching"
        /\ \E e \in FetchRejections : SlotSettles(i, FetchRejected(e))

\* a commits request is answered: an ok response is parsed next, any other
\* leaves commits empty
CommitResponds ==
    \E i \in 1..Len(slots) :
        /\ slots[i].phase = "fetching"
        /\ \E status \in CommitStatuses :
              IF Ok(status)
              THEN /\ slots' = [slots EXCEPT ![i].phase = "parsing",
                                             ![i].outcome = [NoOutcome EXCEPT !.kind = "response",
                                                                              !.status = status]]
                   /\ UNCHANGED <<token, pc, listResponse, data, settleOrder, requests,
                                  repositories, loading, error, setCalls>>
                   /\ UNCHANGED viewVars
              ELSE SlotSettles(i, NotOk(status))

\* the body of a commits response does not parse
CommitJsonRejects ==
    \E i \in 1..Len(slots) :
        /\ slots[i].phase = "parsing"
        /\ \E e \in JsonRejections : SlotSettles(i, JsonRejected(slots[i].outcome.status, e))

\* the body of a commits response parses: the page of the repository's listing
CommitJsonResolves ==
    \E i \in 1..Len(slots) :
        /\ slots[i].phase = "parsing"
        /\ \E history \in Histories :
              SlotSettles(i, Json(slots[i].outcome.status,
                                  UpstreamCommitsPage(history, requests[i + 1].per_page)))

\* a handler of the view sets the view state; the page renders again and the
\* effects whose dependencies changed run before the next event is handled
Render(filter, scrolled, menu, dark) ==
    /\ projectFilter' = filter
    /\ isScrolled' = scrolled
    /\ isMobileMenuOpen' = menu
    /\ isDarkMode' = dark
    /\ UNCHANGED selectedLanguage
    /\ storedTheme' = IF ThemeEffectDeps(filter, dark) # ThemeEffectDeps(projectFilter, isDarkMode)
                      THEN Some(ThemeName(dark))
                      ELSE storedTheme
    /\ IF FetchEffectDeps(filter, dark) # FetchEffectDeps(projectFilter, isDarkMode)
       THEN fetchRepositories
       ELSE UNCHANGED fetchVars

\* a filter button that also closes the mobile menu
SelectFilterClosesMenu ==
    /\ pc # "init"
    /\ \E k \in 1..Len(Languages(repositories)) :
          Render(Languages(repositories)[k], isScrolled, FALSE, isDarkMode)

\* a filter button is clicked: the buttons are the languages of the collection
SelectFilter ==
    /\ pc # "init"
    /\ \E k \in 1..Len(Languages(repositories)) :
          Render(Languages(repositories)[k], isScrolled, isMobileMenuOpen, isDarkMode)

\* the theme button of the desktop menu: toggleTheme
ToggleTheme ==
    /\ pc # "init"
    /\ Render(projectFilter, isScrolled, isMobileMenuOpen, ~isDarkMode)

\* the theme button of the mobile menu: toggleTheme, and the menu closes
ToggleThemeMobile ==
    /\ pc # "init"
    /\ Render(projectFilter, isScrolled, FALSE, ~isDarkMode)

\* the mobile menu button
ToggleMobileMenu ==
    /\ pc # "init"
    /\ Render(projectFilter, isScrolled, ~isMobileMenuOpen, isDarkMode)

\* a link of the mobile menu
CloseMobileMenu ==
    /\ pc # "init"
    /\ Render(projectFilter, isScrolled, FALSE, isDarkMode)

\* handleScroll
Scroll ==
    /\ pc # "init"
    /\ \E scrollY \in ScrollPositions :
          Render(projectFilter, scrollY > ScrollThreshold, isMobileMenuOpen, isDarkMode)

\* handleChange: the system colour scheme changes; the theme follows it only
\* when the storage holds no theme
PreferenceChange ==
    /\ pc # "init"
    /\ \E matches \in BOOLEAN :
          IF storedTheme \in {None, Some("")}
          THEN Render(projectFilter, isScrolled, isMobileMenuOpen, matches)
          ELSE UNCHANGED vars

\* the steps of the fetch cycle
FetchNext ==
    \/ Mount
    \/ ListFetchRejects
    \/ ListResponds
    \/ ListJsonRejects
    \/ ListJsonResolves
    \/ CommitFetchRejects
    \/ CommitResponds
    \/ CommitJsonRejects
    \/ CommitJsonResolves

Next ==
    \/ Mount
    \/ ListFetchRejects
    \/ ListResponds
    \/ ListJsonRejects
    \/ ListJsonResolves
    \/ CommitFetchRejects
    \/ CommitResponds
    \/ CommitJsonRejects
    \/ CommitJsonResolves
    \/ SelectFilter
    \/ ToggleTheme
    \/ ToggleThemeMobile
    \/ ToggleMobileMenu
    \/ CloseMobileMenu
    \/ Scroll
    \/ PreferenceChange

Spec == Init /\ [][Next]_vars

\* every step of the fetch cycle that can be taken is taken in the end: the
\* effects of the first render run, and every request that was issued settles
\* The cycle runs among the events that change the state the components'
\* effects are declared over, the filter and the theme.
FairNext ==
    \/ FetchNext
    \/ SelectFilter
    \/ ToggleTheme
    \/ ToggleThemeMobile

FairSpec == Init /\ [][FairNext]_vars /\ WF_vars(FetchNext)

----------------------------------------------------------------------------
(* The filter on its own: the page after a cycle that succeeded, for the      *)
(* repository lists of accounts with repeated, absent and empty languages     *)

UpstreamRepo(name, language) ==
    [name |-> name, description |-> None,
     html_url |-> "https://github.com/Uvindu2002/repository", language |-> language,
     stargazers_count |-> 0, forks_count |-> 0, topics |-> None]

FilterRepos ==
    { UpstreamRepo("A", Some("Go")),
      UpstreamRepo("B", Some("Go")),
      UpstreamRepo("C", None),
      UpstreamRepo("D", Some("")),
      UpstreamRepo("E", Some("Python")) }

FilterLists ==
    { l \in UNION {[1..n -> FilterRepos] : n \in 0..MaxRepos} :
        \A i, j \in 1..Len(l) : i # j => l[i].name # l[j].name }

\* the page once the cycle has settled for the list l, every commits request
\* answered with status 500
FilterInit ==
    \E l \in FilterLists :
        LET settled == [i \in 1..Len(l) |->
                          [repo |-> l[i], phase |-> "settled", outcome |-> NotOk(500),
                           promise |-> CommitCallback(l[i], NotOk(500))]]
            order == [i \in 1..Len(l) |-> i]
            after == AfterTry(Returned(PromiseAll(Promises(settled), order).value), 0, <<>>)
        IN
        /\ token = Some("ghp_token")
        /\ pc = "done"
        /\ listResponse = Json(200, <<>>)
        /\ data = l
        /\ slots = settled
        /\ settleOrder = order
        /\ requests = <<ListRequest(token)>> \o [i \in 1..Len(l) |-> CommitsRequest(l[i], token)]
        /\ repositories = after.repositories
        /\ loading = after.loading
        /\ error = after.error
        /\ setCalls = after.calls
        /\ selectedLanguage = "All"
        /\ projectFilter = "All"
        /\ isScrolled = FALSE
        /\ isMobileMenuOpen = FALSE
        /\ isDarkMode \in BOOLEAN
        /\ storedTheme = Some(ThemeName(isDarkMode))

\* the events of the view
ViewNext ==
    \/ SelectFilter
    \/ ToggleTheme
    \/ ToggleThemeMobile
    \/ ToggleMobileMenu
    \/ CloseMobileMenu
    \/ Scroll
    \/ PreferenceChange

FilterSpec == FilterInit /\ [][ViewNext]_vars

----------------------------------------------------------------------------
(* Vocabulary of the properties *)

\* the fetch cycle has settled
Settled == pc = "done"

\* the list fetch succeeded: its body parsed into the repository list
ListSucceeded == listResponse.kind = "json"

\* the cycle settled with the list fetch failed, the missing credential included
ListFailed == Settled /\ ~ListSucceeded

\* the names of the repositories the upstream knows
UpstreamNames == {r.name : r \in UpstreamRepos}

\* a commits payload holding an object the mapping cannot read
Malformed(body) == \E k \in 1..Len(body) : MapCommitThrows(body[k])

\* the commit fetch of a slot failed: transport error, status that is not ok,
\* body that does not parse, or malformed payload
CommitFetchFailed(slot) ==
    \/ slot.outcome.kind \in {"fetchRejected", "notOk", "jsonRejected"}
    \/ slot.outcome.kind = "json" /\ Malformed(slot.outcome.body)

\* the number of calls of a state setter so far
Calls(setter) == Cardinality({k \in 1..Len(setCalls) : setCalls[k] = setter})

\* the repository at position i of the collection is built from upstream repository r
BuiltFrom(repository, r) ==
    /\ repository.name = r.name
    /\ repository.html_url = r.html_url
    /\ repository.language = r.language
    /\ repository.description = r.description

----------------------------------------------------------------------------
(* Properties *)

\* C1: once the cycle has settled after a failed list fetch (credential missing,
\* 403, another status that is not ok, transport rejection, unparsable body), the
\* collection is exactly the two default repositories, none of them an upstream one
C1_FallbackOnListFailure ==
    ListFailed =>
        /\ Len(repositories) = 2
        /\ repositories[1].name = "Portfolio Website"
        /\ repositories[2].name = "Data Science Projects"
        /\ \A i \in 1..Len(repositories) : repositories[i].name \notin UpstreamNames
        /\ \E now \in ClockTicks : repositories = DefaultRepositories(now)

C1_Witness ==
    /\ Settled
    /\ listResponse.kind = "notOk"
    /\ listResponse.status = 500
    /\ Len(repositories) = 2

\* C2: when the list fetch succeeded, a failed commit fetch does not fail the
\* cycle: every upstream repository is in the final collection, one whose commit
\* fetch failed with no commits, the others with the commits fetched for them
C2_CommitFailureIsLocal ==
    (Settled /\ ListSucceeded) =>
        /\ error = None
        /\ Len(repositories) = Len(data)
        /\ \A i \in 1..Len(data) :
              /\ repositories[i].name = data[i].name
              /\ CommitFetchFailed(slots[i]) => repositories[i].commits = <<>>
              /\ ~CommitFetchFailed(slots[i]) =>
                    /\ Len(repositories[i].commits) = Len(slots[i].outcome.body)
                    /\ \A k \in 1..Len(slots[i].outcome.body) :
                          repositories[i].commits[k].message
                              = slots[i].outcome.body[k].commit[1].message

C2_Witness ==
    /\ Settled
    /\ Len(data) = 2
    /\ slots[1].outcome.kind = "notOk" /\ slots[1].outcome.status = 500
    /\ repositories[1].commits = <<>>
    /\ Len(repositories[2].commits) = 3

\* C3: whatever the order in which the commit fetches complete, the final
\* collection is as long as the upstream list and its i-th entry is built from
\* the list's i-th repository
C3_OrderPreserved ==
    (Settled /\ ListSucceeded) =>
        /\ Len(repositories) = Len(data)
        /\ \A i \in 1..Len(data) : BuiltFrom(repositories[i], data[i])

C3_Witness ==
    /\ Settled
    /\ Len(data) = 2
    /\ settleOrder = <<2, 1>>
    /\ BuiltFrom(repositories[1], data[1])
    /\ BuiltFrom(repositories[2], data[2])

\* C4: the collection is written exactly once: not before the cycle settles,
\* and once, with the joined result or the default repositories, when it does
C4_WrittenOnce ==
    /\ Calls("setRepositories") <= 1
    /\ Settled <=> Calls("setRepositories") = 1
    /\ ~Settled => repositories = <<>>
    /\ Settled => \/ ListSucceeded /\ Len(repositories) = Len(data)
                  \/ ~ListSucceeded /\ \E now \in ClockTicks : repositories = DefaultRepositories(now)

C4_Witness ==
    /\ Settled
    /\ ListSucceeded
    /\ Len(repositories) = 2
    /\ Calls("setRepositories") = 1

\* C5: while a commit fetch that was issued has not settled, the collection is
\* still empty and loading is still true
C5_JoinBarrier ==
    (\E i \in 1..Len(slots) : slots[i].phase # "settled") =>
        /\ repositories = <<>>
        /\ loading = TRUE
        /\ ~Settled

C5_Witness ==
    /\ Len(slots) = 2
    /\ slots[2].phase = "settled"
    /\ slots[1].phase = "parsing"
    /\ repositories = <<>>
    /\ loading = TRUE

\* C6: with the credential absent no request is ever issued, and the cycle
\* fails with the configuration message
C6_NoRequestWithoutCredential ==
    (token \in {None, Some("")}) =>
        /\ requests = <<>>
        /\ Settled => error = Some(ConfigErrorMessage)

C6_Witness ==
    /\ token = None
    /\ Settled
    /\ error = Some(ConfigErrorMessage)
    /\ requests = <<>>

\* C7: a list response with status 403 fails the cycle with the rate-limit
\* message, and no other failure of the list fetch shows that message
C7_RateLimitDistinct ==
    Settled =>
        ((listResponse.kind = "notOk" /\ listResponse.status = 403)
            <=> error = Some(RateLimitMessage))

C7_Witness ==
    /\ Settled
    /\ listResponse.kind = "notOk"
    /\ listResponse.status = 403
    /\ error = Some(RateLimitMessage)

\* C8 as stated: every failure of the list fetch other than a missing
\* credential or a 403, a rejected request included, shows the one message
\* 'Failed to fetch repositories'
C8_Original ==
    (/\ Settled
     /\ \/ listResponse.kind = "fetchRejected"
        \/ listResponse.kind = "notOk" /\ listResponse.status # 403)
        => error = Some(FetchErrorMessage)

\* C8 amended: a status that is not ok and not 403 shows 'Failed to fetch
\* repositories'; a rejected request shows the message of the error it rejected with
C8_FetchErrorMessages ==
    Settled =>
        /\ (listResponse.kind = "notOk" /\ listResponse.status # 403)
              => error = Some(FetchErrorMessage)
        /\ listResponse.kind = "fetchRejected"
              => error = Some(listResponse.reason.message)

C8_Witness ==
    /\ Settled
    /\ listResponse.kind = "fetchRejected"
    /\ error = Some("Failed to fetch")

\* the commits are newest first by their displayed date
NewestFirst(commits) ==
    \A k, l \in 1..Len(commits) :
        k < l => /\ commits[k].date.valid
                 /\ commits[l].date.valid
                 /\ commits[k].date.day >= commits[l].date.day

\* the commits are those of the payload, in the payload's order
InPayloadOrder(commits, body) ==
    /\ Len(commits) = Len(body)
    /\ \A k \in 1..Len(body) :
          /\ commits[k].sha = SubSeq(body[k].sha[1], 1, 7)
          /\ commits[k].message = body[k].commit[1].message

\* C9 as stated: after any cycle every repository has at most 3 commits,
\* newest first
C9_Original ==
    Settled =>
        \A i \in 1..Len(repositories) :
            /\ Len(repositories[i].commits) <= 3
            /\ NewestFirst(repositories[i].commits)

\* C9 amended: after any cycle every repository has at most 3 commits, in the
\* order in which the upstream response listed them (no sort is applied)
C9_AtMostThreeInUpstreamOrder ==
    Settled =>
        \A i \in 1..Len(repositories) :
            /\ Len(repositories[i].commits) <= 3
            /\ (ListSucceeded /\ ~CommitFetchFailed(slots[i]))
                  => InPayloadOrder(repositories[i].commits, slots[i].outcome.body)

C9_Witness ==
    /\ Settled
    /\ ListSucceeded
    /\ Len(repositories) >= 1
    /\ Len(repositories[1].commits) = 2
    /\ ~NewestFirst(repositories[1].commits)

\* C10: when the list fetch succeeded and every commit fetch failed, the cycle
\* is a full success: no error, every upstream repository present, no commits
C10_AllCommitFetchesFailed ==
    (/\ Settled
     /\ ListSucceeded
     /\ \A i \in 1..Len(slots) : CommitFetchFailed(slots[i]))
        => /\ error = None
           /\ loading = FALSE
           /\ Len(repositories) = Len(data)
           /\ \A i \in 1..Len(data) :
                 /\ repositories[i].name = data[i].name
                 /\ repositories[i].commits = <<>>

C10_Witness ==
    /\ Settled
    /\ Len(data) = 2
    /\ slots[1].outcome.kind = "notOk" /\ slots[1].outcome.status = 403
    /\ slots[2].outcome.kind = "fetchRejected"
    /\ error = None
    /\ Len(repositories) = 2

----------------------------------------------------------------------------
(* The view: filter, loading indicator, banner, theme                         *)

\* the selections a caller can ask the filter for: "All", languages that occur,
\* a language in another case, the empty string, a language that does not occur
FilterValues == {"All", "Go", "go", "Python", "TypeScript", "", "Rust"}

\* the positions of R whose language is the string s
MatchingIndices(R, s) ==
    {i \in 1..Len(R) : R[i].language # None /\ R[i].language[1] = s}

\* the elements of R at the positions I, in R's order
Subsequence(R, I) ==
    [k \in 1..Cardinality(I) |->
        R[CHOOSE i \in I : Cardinality({j \in I : j <= i}) = k]]

\* the non-empty languages that occur in the collection R
ObservedLanguages(R) ==
    {R[i].language[1] : i \in {j \in 1..Len(R) : R[j].language \notin {None, Some("")}}}

\* C11: for every selection s the displayed list is the collection itself when
\* s is "All", and otherwise the subsequence, in the collection's order, of the
\* repositories whose language is exactly s; a repository without a language
\* is displayed under "All" only. It holds of the gallery filter and of
\* filteredRepositories alike.
C11_FilterIsExactSubsequence ==
    \A s \in FilterValues :
        LET shown == GalleryFilter(repositories, s)
            expected == IF s = "All" THEN repositories
                        ELSE Subsequence(repositories, MatchingIndices(repositories, s))
        IN /\ shown = expected
           /\ filteredRepositories(repositories, s) = expected
           /\ s # "All" => \A k \in 1..Len(shown) : shown[k].language # None

C11_Witness ==
    /\ Len(repositories) = 2
    /\ repositories[1].language = None
    /\ repositories[2].language = Some("Go")
    /\ projectFilter = "Go"
    /\ Cards(loading, error, repositories, projectFilter) = <<repositories[2]>>

\* C12: the selectable filter values are "All" followed by the distinct
\* non-empty languages of the collection: every observed non-empty language
\* once, no value twice, nothing for a null or an empty language
C12_LanguagesAreDistinctObserved ==
    LET list == Languages(repositories) IN
    /\ Len(list) >= 1
    /\ list[1] = "All"
    /\ \A i, j \in 1..Len(list) : i # j => list[i] # list[j]
    /\ {list[k] : k \in 2..Len(list)} = ObservedLanguages(repositories)
    /\ \A k \in 1..Len(list) : list[k] # ""

C12_Witness ==
    /\ Len(repositories) = 2
    /\ repositories[1].language = Some("Go")
    /\ repositories[2].language = Some("Go")
    /\ Languages(repositories) = <<"All", "Go">>

\* C13: the loading indicator is shown exactly while the fetch cycle has not
\* settled: the flag is true from the start, false once the cycle has settled
\* on whichever path, and setLoading is called once at most
C13_LoadingUntilSettled ==
    /\ loading <=> ~Settled
    /\ (ProjectsView(loading, error, repositories) = "loading") <=> ~Settled
    /\ Calls("setLoading") <= 1
    /\ loading <=> Calls("setLoading") = 0

C13_Witness ==
    /\ Settled
    /\ ListFailed
    /\ ~loading
    /\ Calls("setLoading") = 1
    /\ ProjectsView(loading, error, repositories) # "loading"

\* C14 as stated: after a top-level failure the view shows the banner with the
\* message and, with it, the cards of the fallback repositories
C14_BannerAboveFallbackGallery ==
    ListFailed =>
        /\ ProjectsView(loading, error, repositories) = "error"
        /\ Len(Cards(loading, error, repositories, projectFilter)) >= 1

\* the list requests among the requests issued so far
ListRequests == {k \in 1..Len(requests) : requests[k].url = ListUrl}

\* C15: the list request is issued once at most, whatever the user does after
\* mount; with a credential it has been issued exactly once from mount on
C15_OneCyclePerLoad ==
    /\ Cardinality(ListRequests) <= 1
    /\ (pc # "init" /\ ~TokenMissing(token)) => Cardinality(ListRequests) = 1
    /\ Calls("setLoading") <= 1
    /\ Calls("setRepositories") <= 1

C15_Witness ==
    /\ Settled
    /\ projectFilter # "All"
    /\ isScrolled
    /\ isMobileMenuOpen
    /\ Cardinality(ListRequests) = 1

\* C16: when every issued request settles in the end, the cycle terminates:
\* a state with loading false and the collection written is reached
C16_CycleTerminates ==
    <>(Settled /\ ~loading /\ Calls("setRepositories") = 1)

C16_Witness ==
    /\ Settled
    /\ ~loading
    /\ Calls("setRepositories") = 1
    /\ Len(data) = 2
    /\ slots[1].outcome.kind = "json"
    /\ slots[2].outcome.kind = "jsonRejected"

\* C17: commit requests are issued only once the list fetch has succeeded, one
\* for each repository of the list and in its order; no request is sent a
\* second time; when the list fetch fails no commit request is issued
C17_OneCommitRequestPerRepository ==
    /\ \A k \in 1..Len(requests) : requests[k].url # ListUrl => ListSucceeded
    /\ ~ListSucceeded => Len(requests) <= 1
    /\ ListSucceeded =>
          /\ Len(requests) = 1 + Len(data)
          /\ requests[1].url = ListUrl
          /\ \A i \in 1..Len(data) :
                /\ requests[1 + i].url = CommitsUrlPrefix
                /\ requests[1 + i].repo = data[i].name
    /\ \A k, l \in 1..Len(requests) :
          k # l => <<requests[k].url, requests[k].repo>> # <<requests[l].url, requests[l].repo>>

C17_Witness ==
    /\ Settled
    /\ Len(data) = 2
    /\ slots[1].outcome.kind = "fetchRejected"
    /\ slots[2].outcome.kind = "notOk"
    /\ Len(requests) = 3

\* C19: the selected filter is "All" or a non-empty language that occurs in
\* the current collection
C19_FilterNamesObservedLanguage ==
    projectFilter \in {"All"} \cup ObservedLanguages(repositories)

C19_Witness ==
    /\ Settled
    /\ projectFilter = "Python"
    /\ \E i \in 1..Len(repositories) : repositories[i].language = Some("Python")

\* C20: before the first effects run, a stored theme decides the theme; from
\* then on, through every toggle, the stored value is "dark" exactly when the
\* theme is dark and "light" otherwise
C20_ThemePersisted ==
    /\ (pc = "init" /\ storedTheme = Some("dark")) => isDarkMode
    /\ (pc = "init" /\ storedTheme = Some("light")) => ~isDarkMode
    /\ pc # "init" => storedTheme = Some(ThemeName(isDarkMode))

C20_Witness ==
    /\ pc # "init"
    /\ isDarkMode
    /\ storedTheme = Some("dark")
    /\ ~isMobileMenuOpen
    /\ isScrolled

----------------------------------------------------------------------------
(* Requests and records                                                       *)

\* C21 as stated: every request carries the credential in its Authorization
\* header as a bearer token
C21_Original ==
    \A k \in 1..Len(requests) :
        /\ requests[k].headers.Authorization.scheme = "Bearer"
        /\ requests[k].headers.Authorization.credential = token[1]

\* C21 amended: every request, the list request and each commit request,
\* carries the credential in its Authorization header under the scheme "token"
C21_CredentialUnderTokenScheme ==
    \A k \in 1..Len(requests) :
        /\ requests[k].headers.Authorization.scheme = "token"
        /\ requests[k].headers.Authorization.credential = token[1]
        /\ requests[k].headers.Authorization.credential # ""

C21_Witness ==
    /\ Len(requests) = 3
    /\ requests[1].url = ListUrl
    /\ requests[2].url = CommitsUrlPrefix
    /\ requests[3].headers.Authorization.credential = "ghp_token"

\* C22: no two entries of the collection have the same name
C22_NamesUnique ==
    \A i, j \in 1..Len(repositories) :
        i # j => repositories[i].name # repositories[j].name

C22_Witness ==
    /\ Settled
    /\ ListSucceeded
    /\ Len(repositories) = 2
    /\ repositories[1].name = "dotfiles"
    /\ repositories[2].name = "portfolio"

\* C23: for every commit of a commit fetch that succeeded, the record's
\* identifier is the first 7 characters of the upstream hash, its message is the
\* upstream message, and its avatar is the upstream avatar when there is one
\* and the placeholder when the upstream has no author or no avatar
C23_CommitRecordFields ==
    (Settled /\ ListSucceeded) =>
        \A i \in 1..Len(slots) :
            (slots[i].outcome.kind = "json" /\ ~Malformed(slots[i].outcome.body)) =>
                LET body == slots[i].outcome.body
                    commits == repositories[i].commits
                IN /\ Len(commits) = Len(body)
                   /\ \A k \in 1..Len(body) :
                         /\ Len(commits[k].sha) = 7
                         /\ \A c \in 1..7 : commits[k].sha[c] = body[k].sha[1][c]
                         /\ commits[k].message = body[k].commit[1].message
                         /\ (body[k].author = None
                                => commits[k].author.avatar_url = PlaceholderAvatar)
                         /\ (body[k].author # None /\ body[k].author[1].avatar_url = None
                                => commits[k].author.avatar_url = PlaceholderAvatar)
                         /\ (body[k].author # None /\ body[k].author[1].avatar_url # None
                                => commits[k].author.avatar_url = body[k].author[1].avatar_url[1])

C23_Witness ==
    /\ Settled
    /\ ListSucceeded
    /\ Len(repositories) >= 1
    /\ Len(repositories[1].commits) = 3
    /\ repositories[1].commits[1].author.avatar_url # PlaceholderAvatar
    /\ repositories[1].commits[2].author.avatar_url = PlaceholderAvatar
    /\ repositories[1].commits[3].author.avatar_url = PlaceholderAvatar
    /\ slots[1].outcome.body[2].author = None
    /\ slots[1].outcome.body[3].author # None

----------------------------------------------------------------------------
(* The fallback and the order of the writes                                   *)

\* the collection is the pair of default repositories
IsFallback(R) ==
    /\ Len(R) = 2
    /\ R[1].name = "Portfolio Website"
    /\ R[2].name = "Data Science Projects"

\* the entries of R that carry exactly n commits
WithCommits(R, n) == {i \in 1..Len(R) : Len(R[i].commits) = n}

\* C24 as stated: the fallback is a fixed pair of records of which one carries
\* a single commit (and the other none), and it comes with a non-null error
C24_Original ==
    /\ ListFailed =>
          /\ IsFallback(repositories)
          /\ Cardinality(WithCommits(repositories, 1)) = 1
          /\ Cardinality(WithCommits(repositories, 0)) = 1
          /\ error # None
    /\ IsFallback(repositories) => error # None

\* C24 amended: the fallback is a pair of hand-authored records each of which
\* carries a single synthetic commit, fixed but for the commit's date, which is
\* the day of the failure; it comes with a non-null error, and it is never the
\* collection while the error is null
C24_FallbackPairEachWithOneCommit ==
    /\ ListFailed =>
          /\ IsFallback(repositories)
          /\ WithCommits(repositories, 1) = {1, 2}
          /\ repositories[1].commits[1].sha = abc1234
          /\ repositories[1].commits[1].message = "Initial commit"
          /\ repositories[2].commits[1].sha = def5678
          /\ repositories[2].commits[1].message = "Add initial project structure"
          /\ \A i \in 1..2 :
                /\ repositories[i].commits[1].date.valid
                /\ repositories[i].commits[1].date.day
                      \in {tick \div TicksPerDay : tick \in ClockTicks}
          /\ error # None
    /\ IsFallback(repositories) => error # None

C24_Witness ==
    /\ ListFailed
    /\ listResponse.kind = "jsonRejected"
    /\ IsFallback(repositories)
    /\ Len(repositories[1].commits) = 1
    /\ Len(repositories[2].commits) = 1
    /\ error # None

\* C25: once the cycle has settled, the error is null exactly when the list
\* fetch succeeded and the join completed, and non-null exactly when the
\* collection is the fallback; a collection taken from the upstream never
\* comes with an error
C25_ErrorIffFallback ==
    Settled =>
        /\ error = None <=>
              /\ listResponse.kind = "json"
              /\ listResponse.status \in 200..299
              /\ \A i \in 1..Len(slots) : slots[i].phase = "settled"
        /\ error # None <=> IsFallback(repositories)
        /\ error # None => \A i \in 1..Len(repositories) : repositories[i].name \notin UpstreamNames

C25_Witness ==
    /\ Settled
    /\ error = None
    /\ Len(repositories) = 1
    /\ repositories[1].name \in UpstreamNames
    /\ slots[1].outcome.kind = "jsonRejected"

\* the position of the first call of a setter, 0 when it was not called
FirstCall(setter) ==
    IF Calls(setter) = 0 THEN 0
    ELSE CHOOSE k \in 1..Len(setCalls) :
            /\ setCalls[k] = setter
            /\ \A l \in 1..(k - 1) : setCalls[l] # setter

\* C26: on both paths the collection and the error are written before the
\* loading flag is cleared: with loading false the outcome is in the state,
\* and until then collection and error hold their first values
C26_OutcomeWrittenBeforeLoadingCleared ==
    /\ loading => (repositories = <<>> /\ error = None /\ setCalls = <<>>)
    /\ ~loading =>
          /\ Calls("setRepositories") = 1
          /\ Calls("setError") = 1
          /\ FirstCall("setRepositories") < FirstCall("setLoading")
          /\ FirstCall("setError") < FirstCall("setLoading")
          /\ ListFailed => (error # None /\ IsFallback(repositories))
          /\ ListSucceeded => (error = None /\ Len(repositories) = Len(data))

C26_Witness ==
    /\ ~loading
    /\ setCalls = <<"setError", "setRepositories", "setLoading">>
    /\ error = Some(RateLimitMessage)
    /\ IsFallback(repositories)

----------------------------------------------------------------------------
(* The gallery, malformed commits, the colour scheme, the frame of the view   *)

\* C27: when the cycle has settled without error and the collection is not
\* empty, the gallery shown for the selected filter holds at least one card
C27_GalleryNeverEmptyForSelection ==
    (Settled /\ error = None /\ Len(repositories) > 0) =>
        /\ ProjectsView(loading, error, repositories) = "gallery"
        /\ Len(Cards(loading, error, repositories, projectFilter)) >= 1

C27_Witness ==
    /\ Settled
    /\ error = None
    /\ Len(repositories) = 2
    /\ projectFilter = "Python"
    /\ Len(Cards(loading, error, repositories, projectFilter)) = 1

\* the commit object lacks the hash, or the date of its author entry
LacksHashOrAuthorDate(commit) ==
    \/ commit.sha = None
    \/ commit.commit = None
    \/ commit.commit[1].author = None
    \/ commit.commit[1].author[1].date = None

\* C28 as stated: when a commit response with a success status holds a commit
\* object that lacks the hash or the author date, the repository's commit
\* sequence is empty and its other fields are those of the upstream
C28_Original ==
    (Settled /\ ListSucceeded) =>
        \A i \in 1..Len(slots) :
            (/\ slots[i].outcome.kind = "json"
             /\ \E k \in 1..Len(slots[i].outcome.body) :
                   LacksHashOrAuthorDate(slots[i].outcome.body[k]))
                => /\ repositories[i].commits = <<>>
                   /\ BuiltFrom(repositories[i], data[i])

\* C28 amended: a commit object that lacks the hash, the commit entry or the
\* commit's author entry empties the repository's commit sequence, the
\* repository's other fields unaffected; a commit object that lacks only the
\* author's date does not: it is kept, with an invalid date, among the others
C28_AllOrNothingOnUnreadableCommit ==
    (Settled /\ ListSucceeded) =>
        \A i \in 1..Len(slots) :
            slots[i].outcome.kind = "json" =>
                LET body == slots[i].outcome.body IN
                /\ BuiltFrom(repositories[i], data[i])
                /\ repositories[i].stargazers_count = data[i].stargazers_count
                /\ repositories[i].forks_count = data[i].forks_count
                /\ Malformed(body) => repositories[i].commits = <<>>
                /\ ~Malformed(body) =>
                      /\ Len(repositories[i].commits) = Len(body)
                      /\ \A k \in 1..Len(body) :
                            repositories[i].commits[k].date.valid
                                <=> body[k].commit[1].author[1].date # None

C28_Witness ==
    /\ Settled
    /\ ListSucceeded
    /\ Len(slots) = 2
    /\ slots[1].outcome.kind = "json"
    /\ Len(slots[1].outcome.body) = 2
    /\ slots[1].outcome.body[1].sha # None
    /\ slots[1].outcome.body[2].sha = None
    /\ repositories[1].commits = <<>>
    /\ slots[2].outcome.kind = "json"
    /\ Len(slots[2].outcome.body) = 2
    /\ slots[2].outcome.body[1].commit[1].author[1].date = None
    /\ Len(repositories[2].commits) = 2
    /\ ~repositories[2].commits[1].date.valid

\* C29: after mount a change of the system colour scheme leaves the theme as
\* it is: the storage holds a theme, so the handler's test fails whichever
\* scheme the system changes to
C29_PreferenceChangeKeepsTheme ==
    pc # "init" =>
        /\ storedTheme \notin {None, Some("")}
        /\ \A matches \in BOOLEAN :
              (IF storedTheme \in {None, Some("")} THEN matches ELSE isDarkMode) = isDarkMode

C29_Witness ==
    /\ Settled
    /\ storedTheme = Some("light")
    /\ ~isDarkMode
    /\ projectFilter = "All"
    /\ isMobileMenuOpen

\* C30: an event of the view (filter, theme, menu, scroll) leaves the
\* collection, the error, the loading flag and the rest of the fetch cycle as
\* they are and issues no request; a filter selection also leaves theme, menu
\* and scroll state as they are
C30_ViewEventsFrame ==
    [][ (pc # "init" /\ viewVars' # viewVars) =>
            /\ UNCHANGED <<repositories, error, loading, requests>>
            /\ UNCHANGED fetchVars
            /\ projectFilter' # projectFilter =>
                  UNCHANGED <<isDarkMode, isMobileMenuOpen, isScrolled, storedTheme>> ]_vars

C30_Witness ==
    /\ Settled
    /\ error = None
    /\ projectFilter = "TypeScript"
    /\ isDarkMode
    /\ isMobileMenuOpen
    /\ isScrolled
    /\ Len(requests) = 2

====
